---- MODULE Spec2Model ----
(***************************************************************************)
(* Model of the projectile-motion simulation: the per-step integrator of   *)
(* Projectile.step, its ground-impact resolution and the notification of   *)
(* the score model; the nearest-point query over the data points; the      *)
(* group of trajectories with the tracer tool that reads them; and the     *)
(* state object TrajectoryIO exports.                                      *)
(*                                                                         *)
(* JavaScript numbers are modelled as rationals <<n, d>> in lowest terms   *)
(* (d > 0), with the three IEEE special values the code can produce:       *)
(* NaN = <<0, 0>>, +Infinity = <<1, 0>>, -Infinity = <<-1, 0>>.  Results   *)
(* whose denominator is at most MaxDen are kept exactly; longer results    *)
(* are rounded to the nearest multiple of 1/FlDen, as a double rounds a    *)
(* result that does not fit its mantissa; operands too long to combine     *)
(* exactly are rounded the same way first.                                 *)
(***************************************************************************)
EXTENDS Integers, Sequences, FiniteSets, TLC

VARIABLES model, fired, projectile, scored, call, dragUsed

\* the group of trajectories, the tracer tool and the last operation on them
VARIABLES trajectories, tracer, event

\* the vector visibility Properties of the Vectors screen
VARIABLES vectorVisibilityProperties

vars == <<model, fired, projectile, scored, call, dragUsed, trajectories, tracer, event, vectorVisibilityProperties>>

----------------------------------------------------------------------------
(* Numbers *)

\* precision of the number model: results are exact up to this denominator
MaxDen == 200 * 200

\* grid of rounded results: three decimal digits
FlDen == 10 * 100

Abs(i) == IF i < 0 THEN -i ELSE i

RECURSIVE GCD(_, _)
GCD(a, b) == IF b = 0 THEN a ELSE GCD(b, a % b)

NaN == <<0, 0>>
PosInf == <<1, 0>>
NegInf == <<-1, 0>>

IsNaN(a) == a[1] = 0 /\ a[2] = 0
IsInf(a) == a[1] # 0 /\ a[2] = 0
IsFinite(a) == a[2] > 0

\* the rational n/d (d > 0) in lowest terms
Norm(n, d) ==
  LET g == GCD(Abs(n), d) IN <<n \div g, d \div g>>

\* n/d rounded to the nearest multiple of 1/f, as a numerator over f (a long
\* n/d is first shortened to a denominator of about six digits)
RoundNum(n, d, f) ==
  LET k == (d \div (1000 * 1000)) + 1
      n1 == n \div k
      d1 == d \div k
  IN (n1 \div d1) * f + ((n1 % d1) * f + (d1 \div 2)) \div d1

\* the stored value of the exact result n/d (d > 0)
Fl(n, d) ==
  LET r == Norm(n, d)
      f == IF Abs(r[1]) \div r[2] < 1000 * 1000 THEN FlDen ELSE 1
  IN IF r[2] <= MaxDen THEN r ELSE Norm(RoundNum(r[1], r[2], f), f)

R(n, d) == Norm(n, d)
Zero == <<0, 1>>
Half == <<1, 2>>
Two == <<2, 1>>

Sign(a) == IF a[1] > 0 THEN 1 ELSE IF a[1] < 0 THEN -1 ELSE 0

RNeg(a) == <<-a[1], a[2]>>

\* whether the product i * j stays below 10^9, within 32-bit integers
Fits(i, j) == i = 0 \/ Abs(j) <= (1000 * 1000 * 1000) \div Abs(i)

\* a finite number rounded to four or five significant digits, on the grid of
\* rounded results when it is small
Grid(a) ==
  LET m == Abs(a[1]) \div a[2]
      f == IF m < 40 THEN FlDen
           ELSE IF m < 400 THEN FlDen \div 10
           ELSE IF m < 4000 THEN FlDen \div 100
           ELSE 1
  IN Norm(RoundNum(a[1], a[2], f), f)

\* the sum of two finite numbers, computed exactly
AddExact(a, b) ==
  LET g == GCD(a[2], b[2])
      l == (a[2] \div g) * b[2]
  IN Fl(a[1] * (l \div a[2]) + b[1] * (l \div b[2]), l)

\* whether AddExact(a, b) can be computed
AddFits(a, b) ==
  LET g == GCD(a[2], b[2])
  IN /\ Fits(a[2] \div g, b[2])
     /\ Fits(a[1], b[2] \div g)
     /\ Fits(b[1], a[2] \div g)

\* a + b
RAdd(a, b) ==
  IF IsNaN(a) \/ IsNaN(b) THEN NaN
  ELSE IF IsInf(a) /\ IsInf(b) THEN (IF a = b THEN a ELSE NaN)
  ELSE IF IsInf(a) THEN a
  ELSE IF IsInf(b) THEN b
  ELSE IF AddFits(a, b) THEN AddExact(a, b)
  ELSE AddExact(Grid(a), Grid(b))

RSub(a, b) == RAdd(a, RNeg(b))

\* the product of two finite numbers, computed exactly
MulExact(a, b) ==
  LET g1 == GCD(Abs(a[1]), b[2])
      g2 == GCD(Abs(b[1]), a[2])
  IN Fl((a[1] \div g1) * (b[1] \div g2), (a[2] \div g2) * (b[2] \div g1))

\* whether MulExact(a, b) can be computed
MulFits(a, b) ==
  LET g1 == GCD(Abs(a[1]), b[2])
      g2 == GCD(Abs(b[1]), a[2])
  IN /\ Fits(a[1] \div g1, b[1] \div g2)
     /\ Fits(a[2] \div g2, b[2] \div g1)

\* a * b
RMul(a, b) ==
  IF IsNaN(a) \/ IsNaN(b) THEN NaN
  ELSE IF IsInf(a) \/ IsInf(b)
    THEN (IF Sign(a) * Sign(b) = 0 THEN NaN ELSE <<Sign(a) * Sign(b), 0>>)
  ELSE IF MulFits(a, b) THEN MulExact(a, b)
  ELSE MulExact(Grid(a), Grid(b))

\* a / b: 0/0 is NaN and x/0 is an infinity, as in IEEE arithmetic
RDiv(a, b) ==
  IF IsNaN(a) \/ IsNaN(b) THEN NaN
  ELSE IF IsInf(b) THEN (IF IsInf(a) THEN NaN ELSE Zero)
  ELSE IF b[1] = 0 THEN (IF a[1] = 0 THEN NaN ELSE <<Sign(a), 0>>)
  ELSE IF b[1] > 0 THEN RMul(a, <<b[2], b[1]>>)
  ELSE RMul(a, <<-b[2], -b[1]>>)

\* a <= b and a < b: every comparison with NaN is false
RLe(a, b) ==
  IF IsNaN(a) \/ IsNaN(b) THEN FALSE
  ELSE IF IsInf(a) \/ IsInf(b)
    THEN (IF IsInf(a) /\ IsInf(b) THEN a[1] <= b[1]
          ELSE IF IsInf(a) THEN a[1] < 0 ELSE b[1] > 0)
  ELSE LET g == GCD(a[2], b[2])
       IN a[1] * (b[2] \div g) <= b[1] * (a[2] \div g)

RLt(a, b) == RLe(a, b) /\ a # b

\* floor of the square root of k >= 0, searched between lo and hi
RECURSIVE SqrtBetween(_, _, _)
SqrtBetween(k, lo, hi) ==
  IF lo >= hi THEN lo
  ELSE LET mid == (lo + hi + 1) \div 2
       IN IF mid * mid <= k THEN SqrtBetween(k, mid, hi)
          ELSE SqrtBetween(k, lo, mid - 1)

ISqrt(k) == SqrtBetween(k, 0, IF k < 46340 THEN k ELSE 46340)

\* the integer nearest to the square root of k
ISqrtNearest(k) ==
  LET r == ISqrt(k) IN IF k - r * r <= r THEN r ELSE r + 1

\* Math.sqrt: NaN below zero, exact on squares of rationals, else rounded
RSqrt(a) ==
  IF IsNaN(a) \/ a[1] < 0 THEN NaN
  ELSE IF IsInf(a) THEN a
  ELSE LET sn == ISqrt(a[1])
           sd == ISqrt(a[2])
       IN IF sn * sn = a[1] /\ sd * sd = a[2] THEN <<sn, sd>>
          ELSE IF a[1] \div a[2] < 2000
            THEN Norm(ISqrtNearest(RoundNum(a[1], a[2], FlDen) * FlDen), FlDen)
          ELSE IF a[1] \div a[2] < 2000 * 100
            THEN Norm(ISqrtNearest(RoundNum(a[1], a[2], 100)), 10)
          ELSE Norm(ISqrtNearest(a[1] \div a[2]), 1)

----------------------------------------------------------------------------
(* Constants of the simulation *)

\* ACCELERATION_DUE_TO_GRAVITY, 9.81 m/s^2
ACCELERATION_DUE_TO_GRAVITY == R(981, 100)

\* Math.PI
PI == R(3142, 1000)

\* Math.cos and Math.sin of an angle given in degrees, at the cannon angles
\* of AngleSet and their doubles (36.87 and 53.13 degrees are the angles of
\* the 3-4-5 triangle)
CosDeg(angle) ==
  CASE angle = R(-90, 1) -> Zero
    [] angle = Zero -> R(1, 1)
    [] angle = R(3687, 100) -> R(4, 5)
    [] angle = R(5313, 100) -> R(3, 5)
    [] angle = R(7374, 100) -> R(7, 25)
    [] angle = R(90, 1) -> Zero
    [] angle = R(10626, 100) -> R(-7, 25)
    [] angle = R(180, 1) -> R(-1, 1)

SinDeg(angle) ==
  CASE angle = R(-90, 1) -> R(-1, 1)
    [] angle = Zero -> Zero
    [] angle = R(3687, 100) -> R(3, 5)
    [] angle = R(5313, 100) -> R(4, 5)
    [] angle = R(7374, 100) -> R(24, 25)
    [] angle = R(90, 1) -> R(1, 1)
    [] angle = R(10626, 100) -> R(24, 25)
    [] angle = R(180, 1) -> Zero

\* Math.pow( base, exponent ) at the arguments the altitudes of AltitudeSet
\* produce, to three decimals
MathPow(base, exponent) ==
  CASE base = R(28814, 28808) /\ exponent = R(5256, 1000) -> R(1001, 1000)
    [] base = R(23159, 21660) /\ exponent = R(-11388, 1000) -> R(467, 1000)

\* Math.exp( x ) at the arguments the altitudes of AltitudeSet produce
MathExp(x) ==
  CASE x = R(-154, 1000) -> R(857, 1000)

----------------------------------------------------------------------------
(* Projectile *)

\* new DataPoint( time, x, y )
DataPoint(time, x, y) == [time |-> time, x |-> x, y |-> y, apex |-> FALSE]

\* new Projectile( model )
NewProjectile(m) ==
  [ totalTime |-> Zero,
    x |-> Zero,
    y |-> m.cannonHeight,
    mass |-> m.projectileMass,
    diameter |-> m.projectileDiameter,
    dragCoefficient |-> m.projectileDragCoefficient,
    xVelocity |-> RMul(m.launchVelocity, CosDeg(m.cannonAngle)),
    yVelocity |-> RMul(m.launchVelocity, SinDeg(m.cannonAngle)),
    velocity |-> m.launchVelocity,
    xAcceleration |-> Zero,
    yAcceleration |-> RNeg(ACCELERATION_DUE_TO_GRAVITY),
    reachedGround |-> FALSE,
    dataPoints |-> <<>> ]

\* temperature in Celsius at an altitude in meters
Temperature(altitude) ==
  IF RLt(altitude, R(11000, 1))
    THEN RSub(R(1504, 100), RMul(R(649, 100000), altitude))
  ELSE IF RLt(altitude, R(25000, 1))
    THEN R(-5646, 100)
  ELSE RAdd(R(-13121, 100), RMul(R(299, 100000), altitude))

\* pressure in kPa at an altitude in meters
Pressure(altitude) ==
  IF RLt(altitude, R(11000, 1))
    THEN RMul(R(10129, 100),
              MathPow(RDiv(RAdd(Temperature(altitude), R(2731, 10)), R(28808, 100)),
                      R(5256, 1000)))
  ELSE IF RLt(altitude, R(25000, 1))
    THEN RMul(R(2265, 100),
              MathExp(RSub(R(173, 100), RMul(R(157, 1000000), altitude))))
  ELSE RMul(R(2488, 1000),
            MathPow(RDiv(RAdd(Temperature(altitude), R(2731, 10)), R(2166, 10)),
                    R(-11388, 1000)))

\* AirDensity of the altitude, whether air resistance is on or off
AirDensityOfAltitude(airResistanceOn, altitude) ==
  RDiv(Pressure(altitude),
       RMul(R(2869, 10000), RAdd(Temperature(altitude), R(2731, 10))))

\* the air density the step uses
AirDensity(airResistanceOn, altitude) ==
  IF airResistanceOn
    THEN RDiv(Pressure(altitude),
              RMul(R(2869, 10000), RAdd(Temperature(altitude), R(2731, 10))))
  ELSE Zero

\* cross sectional area of the projectile
Area(p) == RDiv(RMul(RMul(PI, p.diameter), p.diameter), R(4, 1))

\* 0.5 * airDensity * area * dragCoefficient * velocity * (a velocity component)
DragForce(p, airDensity, component) ==
  RMul(RMul(RMul(RMul(RMul(Half, airDensity), Area(p)), p.dragCoefficient),
            p.velocity), component)

\* start + v * t + 0.5 * a * t * t
Advance(start, v, a, t) ==
  RAdd(RAdd(start, RMul(v, t)), RMul(RMul(RMul(Half, a), t), t))

\* yVelocity * yVelocity - 2 * yAcceleration * y
Discriminant(y, yVelocity, yAcceleration) ==
  RSub(RMul(yVelocity, yVelocity), RMul(RMul(Two, yAcceleration), y))

\* TimeToGround with the other root of the quadratic
TimeToGroundOtherRoot(y, yVelocity, yAcceleration) ==
  RDiv(RSub(RSqrt(Discriminant(y, yVelocity, yAcceleration)), yVelocity),
       yAcceleration)

\* the time it takes the projectile to reach the ground, within the next dt
TimeToGround(y, yVelocity, yAcceleration) ==
  RDiv(RSub(RNeg(RSqrt(Discriminant(y, yVelocity, yAcceleration))), yVelocity),
       yAcceleration)

\* StepLanded notifying the score model again
StepLandedNotifies(p) ==
  [ p |-> [p EXCEPT !.xVelocity = Zero, !.yVelocity = Zero],
    scored |-> <<p.x>>,
    timeToGround |-> <<>> ]

\* StepLanded recording one more data point
StepLandedRecords(p) ==
  [ p |-> [p EXCEPT !.xVelocity = Zero, !.yVelocity = Zero,
                    !.dataPoints = Append(p.dataPoints, DataPoint(p.totalTime, p.x, p.y))],
    scored |-> <<>>,
    timeToGround |-> <<>> ]

\* a step of a projectile that has reached the ground
StepLanded(p) ==
  [ p |-> [p EXCEPT !.xVelocity = Zero, !.yVelocity = Zero],
    scored |-> <<>>,
    timeToGround |-> <<>> ]

\* NextTotalTime without the advance
NextTotalTimeStuck(totalTime, dt) == totalTime

\* the elapsed time after a step of dt
NextTotalTime(totalTime, dt) == RAdd(totalTime, dt)

\* GroundY keeping the candidate height
GroundYKept(candY) == candY

\* the height recorded for a projectile whose candidate height is on or below
\* the ground
GroundY(candY) == Zero

\* the end of a step of a projectile in flight: the assignments, the new
\* data point and the call of scoreModel.checkforScored
Commit(p, dt, xAcceleration, yAcceleration, ground, newX, newY, newXVelocity, newYVelocity, newTime, timeToGround) ==
  [ p |-> [p EXCEPT
             !.xAcceleration = xAcceleration,
             !.yAcceleration = yAcceleration,
             !.reachedGround = ground,
             !.totalTime = newTime,
             !.x = newX,
             !.y = newY,
             !.xVelocity = newXVelocity,
             !.yVelocity = newYVelocity,
             !.velocity = RSqrt(RAdd(RMul(newXVelocity, newXVelocity),
                                     RMul(newYVelocity, newYVelocity))),
             !.dataPoints = Append(p.dataPoints, DataPoint(newTime, newX, newY))],
    scored |-> IF ground THEN <<newX>> ELSE <<>>,
    timeToGround |-> IF ground THEN <<timeToGround>> ELSE <<>> ]

\* the ground branch of a step, taken when the candidate height is not positive
Resolve(p, dt, xAcceleration, yAcceleration, candX, candY, ground, timeToGround) ==
  Commit(p, dt, xAcceleration, yAcceleration, ground,
         IF ground
           THEN Advance(p.x, p.xVelocity, xAcceleration, timeToGround)
           ELSE candX,
         IF ground THEN GroundY(candY) ELSE candY,
         RAdd(p.xVelocity, RMul(xAcceleration, dt)),
         RAdd(p.yVelocity, RMul(yAcceleration, dt)),
         NextTotalTime(p.totalTime, dt),
         timeToGround)

\* Integrate without the test of the candidate height against the ground
IntegrateInFlight(p, dt, xAcceleration, yAcceleration, candY) ==
  Resolve(p, dt, xAcceleration, yAcceleration,
          Advance(p.x, p.xVelocity, xAcceleration, dt),
          candY, FALSE, Zero)

\* the candidate position of a step under the new acceleration
Integrate(p, dt, xAcceleration, yAcceleration, candY) ==
  Resolve(p, dt, xAcceleration, yAcceleration,
          Advance(p.x, p.xVelocity, xAcceleration, dt),
          candY,
          RLe(candY, Zero),
          IF RLe(candY, Zero)
            THEN TimeToGround(p.y, p.yVelocity, yAcceleration)
            ELSE Zero)

\* the new acceleration of a step
Accelerate(p, dt, xAcceleration, yAcceleration) ==
  Integrate(p, dt, xAcceleration, yAcceleration,
            Advance(p.y, p.yVelocity, yAcceleration, dt))

\* Drag reading the mass of the model instead of the mass of the projectile
DragReadsModel(p, dt, airDensity) ==
  Accelerate(p, dt,
             RDiv(RNeg(DragForce(p, airDensity, p.xVelocity)), model.projectileMass),
             RSub(RNeg(ACCELERATION_DUE_TO_GRAVITY),
                  RDiv(DragForce(p, airDensity, p.yVelocity), model.projectileMass)))

\* the drag of a step under an air density
Drag(p, dt, airDensity) ==
  Accelerate(p, dt,
             RDiv(RNeg(DragForce(p, airDensity, p.xVelocity)), p.mass),
             RSub(RNeg(ACCELERATION_DUE_TO_GRAVITY),
                  RDiv(DragForce(p, airDensity, p.yVelocity), p.mass)))

\* a step of a projectile in flight
StepAirborne(p, dt, airResistanceOn, altitude) ==
  Drag(p, dt, AirDensity(airResistanceOn, altitude))

\* Projectile.step( dt ): the projectile after the step, the arguments of the
\* calls of scoreModel.checkforScored it made, and its local timeToGround
ProjectileStep(p, dt, airResistanceOn, altitude) ==
  IF p.reachedGround THEN StepLanded(p)
  ELSE StepAirborne(p, dt, airResistanceOn, altitude)

----------------------------------------------------------------------------
(* The simulation: one model, one projectile in flight *)

\* the longest sample log of a projectile in flight
MaxPoints == 3

\* the largest speed from which a projectile in flight is stepped, in m/s
MaxSpeed == 50

\* the time steps of the stepping loop, in seconds
DtSet == {R(1, 2), R(1, 1)}

\* the launch configurations
HeightSet == {Zero, R(1, 2)}
AngleSet == {R(-90, 1), Zero, R(3687, 100), R(5313, 100), R(90, 1)}
SpeedSet == {Zero, R(5, 1), R(10, 1)}
MassSet == {R(1205, 981), R(5, 1)}
DiameterSet == {R(1, 1)}
DragCoefficientSet == {R(1, 1)}
AltitudeSet == {Zero, R(12000, 1), R(30000, 1)}

Models(heights) ==
  [ cannonHeight : heights,
    cannonAngle : AngleSet,
    launchVelocity : SpeedSet,
    projectileMass : MassSet,
    projectileDiameter : DiameterSet,
    projectileDragCoefficient : DragCoefficientSet,
    airResistanceOn : BOOLEAN,
    altitude : AltitudeSet ]

\* the launch configuration a projectile is constructed from
LaunchOf(m) ==
  [ cannonHeight |-> m.cannonHeight,
    cannonAngle |-> m.cannonAngle,
    launchVelocity |-> m.launchVelocity,
    projectileMass |-> m.projectileMass,
    projectileDiameter |-> m.projectileDiameter,
    projectileDragCoefficient |-> m.projectileDragCoefficient ]

\* null
Null == <<>>

\* new Tracer( trajectories, tracerX, tracerY, tandem )
NewTracer(tracerX, tracerY) ==
  [ position |-> [x |-> tracerX, y |-> tracerY],
    dataPoint |-> Null,
    isActive |-> FALSE ]

----------------------------------------------------------------------------
(* Vector visibility of the Vectors screen                                 *)
(*                                                                         *)
(* The ten Properties of VectorsVectorVisibilityProperties are held in one *)
(* record. A Property notifies its listeners when set() changes its value, *)
(* and Property.multilink calls its callback with the values of the four   *)
(* controls, once when it is made and on each notification.                *)

\* VectorsDisplayEnumeration.TOTAL, VectorsDisplayEnumeration.COMPONENTS
VectorsDisplayEnumeration == {"TOTAL", "COMPONENTS"}

\* the four controls and their initial values
ControlDefaults ==
  [ velocityVectorsOn |-> FALSE,
    accelerationVectorsOn |-> FALSE,
    forceVectorsOn |-> FALSE,
    vectorsDisplay |-> "TOTAL" ]

\* the order in which reset() resets the controls
ControlOrder == <<"velocityVectorsOn", "accelerationVectorsOn", "forceVectorsOn", "vectorsDisplay">>

\* updateVectorVisibilities with the force vectors following the acceleration
\* control
UpdateVectorVisibilitiesCrossed(p, velocityVectorsOn, accelerationVectorsOn, forceVectorsOn, vectorsDisplay) ==
  LET displayTotal == vectorsDisplay = "TOTAL"
      displayComponents == vectorsDisplay = "COMPONENTS"
  IN [p EXCEPT !.totalVelocityVectorOn = velocityVectorsOn /\ displayTotal,
               !.componentsVelocityVectorsOn = velocityVectorsOn /\ displayComponents,
               !.totalAccelerationVectorOn = accelerationVectorsOn /\ displayTotal,
               !.componentsAccelerationVectorsOn = accelerationVectorsOn /\ displayComponents,
               !.totalForceVectorOn = accelerationVectorsOn /\ displayTotal,
               !.componentsForceVectorsOn = accelerationVectorsOn /\ displayComponents]

\* updateVectorVisibilities( velocityVectorsOn, accelerationVectorsOn,
\* forceVectorsOn, vectorsDisplay )
UpdateVectorVisibilities(p, velocityVectorsOn, accelerationVectorsOn, forceVectorsOn, vectorsDisplay) ==
  LET displayTotal == vectorsDisplay = "TOTAL"
      displayComponents == vectorsDisplay = "COMPONENTS"
  IN [p EXCEPT !.totalVelocityVectorOn = velocityVectorsOn /\ displayTotal,
               !.componentsVelocityVectorsOn = velocityVectorsOn /\ displayComponents,
               !.totalAccelerationVectorOn = accelerationVectorsOn /\ displayTotal,
               !.componentsAccelerationVectorsOn = accelerationVectorsOn /\ displayComponents,
               !.totalForceVectorOn = forceVectorsOn /\ displayTotal,
               !.componentsForceVectorsOn = forceVectorsOn /\ displayComponents]

\* the callback of Property.multilink on the four controls
Multilink(p) ==
  UpdateVectorVisibilities(p, p.velocityVectorsOn, p.accelerationVectorsOn, p.forceVectorsOn, p.vectorsDisplay)

\* control.set( value ): the listeners are notified when the value changes
SetControl(p, control, value) ==
  IF p[control] = value THEN p ELSE Multilink([p EXCEPT ![control] = value])

\* VectorVisibilityProperties.prototype.reset, with accelerationProperties and
\* forceProperties
VectorVisibilityPropertiesReset(p) ==
  [p EXCEPT !.totalVelocityVectorOn = FALSE,
            !.componentsVelocityVectorsOn = FALSE,
            !.totalAccelerationVectorOn = FALSE,
            !.componentsAccelerationVectorsOn = FALSE,
            !.totalForceVectorOn = FALSE,
            !.componentsForceVectorsOn = FALSE]

\* the first n controls of ControlOrder are reset, one after the other
RECURSIVE ResetControls(_, _)
ResetControls(p, n) ==
  IF n = 0
    THEN p
    ELSE SetControl(ResetControls(p, n - 1), ControlOrder[n], ControlDefaults[ControlOrder[n]])

\* VectorsVectorVisibilityProperties.prototype.reset
VectorsVectorVisibilityPropertiesReset(p) ==
  ResetControls(VectorVisibilityPropertiesReset(p), Len(ControlOrder))

\* new VectorsVectorVisibilityProperties( tandem )
NewVectorsVectorVisibilityProperties ==
  Multilink([ velocityVectorsOn |-> ControlDefaults.velocityVectorsOn,
              accelerationVectorsOn |-> ControlDefaults.accelerationVectorsOn,
              forceVectorsOn |-> ControlDefaults.forceVectorsOn,
              vectorsDisplay |-> ControlDefaults.vectorsDisplay,
              totalVelocityVectorOn |-> FALSE,
              componentsVelocityVectorsOn |-> FALSE,
              totalAccelerationVectorOn |-> FALSE,
              componentsAccelerationVectorsOn |-> FALSE,
              totalForceVectorOn |-> FALSE,
              componentsForceVectorsOn |-> FALSE ])

\* no trajectory, and the tracer in its toolbox
NoTrajectories ==
  /\ trajectories = <<>>
  /\ tracer = NewTracer(R(10, 1), R(10, 1))
  /\ event = <<>>

InitWith(heights) ==
  /\ model \in Models(heights)
  /\ fired = LaunchOf(model)
  /\ projectile = NewProjectile(model)
  /\ scored = <<>>
  /\ call = <<>>
  /\ dragUsed = FALSE
  /\ vectorVisibilityProperties = NewVectorsVectorVisibilityProperties
  /\ NoTrajectories

Init == InitWith(HeightSet)

\* the stepping loop calls projectile.step( dt )
Step(dt) ==
  /\ \/ projectile.reachedGround
     \/ /\ Len(projectile.dataPoints) < MaxPoints
        /\ RLe(projectile.velocity, R(MaxSpeed, 1))
  /\ LET r == ProjectileStep(projectile, dt, model.airResistanceOn, model.altitude)
     IN /\ projectile' = r.p
        /\ scored' = scored \o r.scored
        /\ call' = <<[dt |-> dt, before |-> projectile, timeToGround |-> r.timeToGround]>>
  /\ dragUsed' = (dragUsed \/ (~projectile.reachedGround /\ model.airResistanceOn))
  /\ UNCHANGED <<model, fired, trajectories, tracer, event, vectorVisibilityProperties>>

\* the user switches air resistance on or off
SetAirResistanceOn(on) ==
  /\ model.airResistanceOn # on
  /\ model' = [model EXCEPT !.airResistanceOn = on]
  /\ UNCHANGED <<fired, projectile, scored, call, dragUsed, trajectories, tracer, event, vectorVisibilityProperties>>

\* the user changes the altitude
SetAltitude(altitude) ==
  /\ model.altitude # altitude
  /\ model' = [model EXCEPT !.altitude = altitude]
  /\ UNCHANGED <<fired, projectile, scored, call, dragUsed, trajectories, tracer, event, vectorVisibilityProperties>>

Next ==
  \/ \E dt \in DtSet : Step(dt)
  \/ \E on \in BOOLEAN : SetAirResistanceOn(on)
  \/ \E altitude \in AltitudeSet : SetAltitude(altitude)

Spec == Init /\ [][Next]_vars

\* the same simulation with a cannon below the ground plane: the constructor
\* of Projectile takes model.cannonHeight as it is
UnvalidatedHeightSet == {R(-1, 1), R(-1, 2)}

InitUnvalidated == InitWith(UnvalidatedHeightSet)

SpecUnvalidated == InitUnvalidated /\ [][Next]_vars

----------------------------------------------------------------------------
(* Properties of Projectile.step *)

Last(seq) == seq[Len(seq)]

\* the most recent call of step took the ground branch
GroundStep ==
  /\ call # <<>>
  /\ ~call[1].before.reachedGround
  /\ projectile.reachedGround

\* the most recent call of step found the projectile on the ground already
LandedStep ==
  /\ call # <<>>
  /\ call[1].before.reachedGround

\* the projectile as it was launched
Launched == [x |-> Zero,
             y |-> fired.cannonHeight,
             xVelocity |-> RMul(fired.launchVelocity, CosDeg(fired.cannonAngle)),
             yVelocity |-> RMul(fired.launchVelocity, SinDeg(fired.cannonAngle))]

\* C1: the times of the samples in dataPoints are strictly increasing in
\* recording order
C1_TimesStrictlyIncreasing ==
  \A i \in 1..(Len(projectile.dataPoints) - 1) :
    RLt(projectile.dataPoints[i].time, projectile.dataPoints[i + 1].time)

\* a landed projectile with three samples
C1_Witness ==
  /\ projectile.reachedGround
  /\ Len(projectile.dataPoints) = 3

\* C2: whenever reachedGround is true, dataPoints is non-empty and its last
\* sample has y exactly 0
C2_LandedLastSampleOnGround ==
  projectile.reachedGround =>
    /\ Len(projectile.dataPoints) > 0
    /\ Last(projectile.dataPoints).y = Zero

\* a projectile launched above the ground that landed after a sample in the air
C2_Witness ==
  /\ projectile.reachedGround
  /\ RLt(Zero, fired.cannonHeight)
  /\ Len(projectile.dataPoints) >= 2
  /\ RLt(Zero, projectile.dataPoints[1].y)

\* C3: scoreModel.checkforScored has been called exactly once for a projectile
\* that landed, with the x of the final sample, and never for one in flight
C3_ScoredExactlyOnceOnLanding ==
  /\ ~projectile.reachedGround => scored = <<>>
  /\ projectile.reachedGround =>
       /\ Len(scored) = 1
       /\ scored[1] = Last(projectile.dataPoints).x

\* step has been called on a projectile that had landed and been scored
C3_Witness ==
  /\ LandedStep
  /\ Len(scored) = 1
  /\ Len(projectile.dataPoints) >= 2

\* C4: whenever reachedGround is true, xVelocity and yVelocity are both 0
C4_LandedVelocityZero ==
  projectile.reachedGround =>
    /\ projectile.xVelocity = Zero
    /\ projectile.yVelocity = Zero

\* C5: once reachedGround is true, a step leaves x, y, totalTime,
\* reachedGround and dataPoints unchanged
C5_LandedStepFrame ==
  [][projectile.reachedGround =>
       /\ projectile'.x = projectile.x
       /\ projectile'.y = projectile.y
       /\ projectile'.totalTime = projectile.totalTime
       /\ projectile'.reachedGround = projectile.reachedGround
       /\ projectile'.dataPoints = projectile.dataPoints]_vars

\* a step on a landed projectile that was still moving
C5_Witness ==
  /\ LandedStep
  /\ call[1].before.xVelocity # Zero
  /\ projectile.xVelocity = Zero
  /\ Len(projectile.dataPoints) >= 2

\* C6: in the step that crosses the ground, the final sample has the time
\* before the step plus timeToGround, x = xGround and y = 0
C6_FinalSampleAtTimeToGround ==
  GroundStep =>
    LET before == call[1].before
        timeToGround == call[1].timeToGround[1]
        final == Last(projectile.dataPoints)
    IN /\ final.time = RAdd(before.totalTime, timeToGround)
       /\ final.x = Advance(before.x, before.xVelocity, projectile.xAcceleration,
                            timeToGround)
       /\ final.y = Zero

\* x0 + vx0 * t and y0 + vy0 * t - 0.5 * g * t^2
ClosedFormX(t) == RAdd(Launched.x, RMul(Launched.xVelocity, t))
ClosedFormY(t) ==
  RSub(RAdd(Launched.y, RMul(Launched.yVelocity, t)),
       RMul(RMul(RMul(Half, ACCELERATION_DUE_TO_GRAVITY), t), t))

\* C7: without air resistance every sample, the final one included, lies on
\* the closed-form trajectory at its recorded time
C7_SamplesOnClosedForm ==
  ~dragUsed =>
    \A i \in 1..Len(projectile.dataPoints) :
      LET point == projectile.dataPoints[i]
      IN /\ point.x = ClosedFormX(point.time)
         /\ point.y = ClosedFormY(point.time)

\* speed^2 * sin( 2 * angle ) / g
ClosedFormRange ==
  RDiv(RMul(RMul(fired.launchVelocity, fired.launchVelocity),
            SinDeg(RMul(Two, fired.cannonAngle))),
       ACCELERATION_DUE_TO_GRAVITY)

\* launched from height 0 at an upward angle, and flown without air resistance
FlatUpwardNoDrag ==
  /\ fired.cannonHeight = Zero
  /\ RLt(Zero, fired.cannonAngle)
  /\ RLt(fired.cannonAngle, R(180, 1))
  /\ ~dragUsed

\* C8: for a launch from height 0 at an upward angle without air resistance,
\* the x passed to checkforScored is the closed-form range
C8_ScoredRange ==
  (FlatUpwardNoDrag /\ scored # <<>>) => scored[1] = ClosedFormRange

\* such a projectile landed away from the cannon after a sample in the air
C8_Witness ==
  /\ FlatUpwardNoDrag
  /\ scored # <<>>
  /\ RLt(Zero, scored[1])
  /\ Len(projectile.dataPoints) >= 2

C10_NegativeDiscriminantLandsInPlace ==
  (/\ GroundStep
   /\ RLt(Discriminant(call[1].before.y, call[1].before.yVelocity,
                       projectile.yAcceleration), Zero)) =>
    /\ call[1].timeToGround[1] = Zero
    /\ projectile.x = call[1].before.x
    /\ projectile.y = Zero
    /\ projectile.reachedGround

----------------------------------------------------------------------------
(* Properties of Projectile.step called with a time step that is not positive *)

\* time steps a caller can pass that are not positive
InvalidDtSet == {Zero, R(-1, 2)}

\* the stepping loop with callers that pass any time step
NextAnyDt ==
  \/ \E dt \in DtSet \cup InvalidDtSet : Step(dt)
  \/ \E on \in BOOLEAN : SetAirResistanceOn(on)

\* launches from above the ground at sea level
InitAnyDt ==
  /\ model \in {m \in Models({R(1, 2)}) : m.projectileMass = R(5, 1) /\ m.altitude = Zero}
  /\ fired = LaunchOf(model)
  /\ projectile = NewProjectile(model)
  /\ scored = <<>>
  /\ call = <<>>
  /\ dragUsed = FALSE
  /\ vectorVisibilityProperties = NewVectorsVectorVisibilityProperties
  /\ NoTrajectories

SpecAnyDt == InitAnyDt /\ [][NextAnyDt]_vars

\* the most recent call of step found the projectile in flight and was given
\* a time step that is not positive
InvalidStep ==
  /\ call # <<>>
  /\ ~call[1].before.reachedGround
  /\ RLe(call[1].dt, Zero)

\* C11: a step with dt <= 0 on a projectile in flight appends no sample,
\* changes neither position, velocity nor elapsed time, and does not mark the
\* projectile landed
C11_InvalidDtRejected ==
  InvalidStep =>
    /\ projectile.dataPoints = call[1].before.dataPoints
    /\ projectile.x = call[1].before.x
    /\ projectile.y = call[1].before.y
    /\ projectile.xVelocity = call[1].before.xVelocity
    /\ projectile.yVelocity = call[1].before.yVelocity
    /\ projectile.velocity = call[1].before.velocity
    /\ projectile.totalTime = call[1].before.totalTime
    /\ ~projectile.reachedGround

----------------------------------------------------------------------------
(* Trajectories and the tracer tool *)

\* TIME_PER_MINOR_DOT, in milliseconds
TIME_PER_MINOR_DOT == 100

\* SENSING_RADIUS, in meters: how close the tracer needs to get to a data point
SENSING_RADIUS == R(2, 10)

\* Math.sqrt( dx * dx + dy * dy ) between ( ax, ay ) and ( bx, by ), to three
\* decimals
Distance(ax, ay, bx, by) ==
  LET dx == RSub(ax, bx)
      dy == RSub(ay, by)
  IN IF IsNaN(dx) \/ IsNaN(dy) THEN NaN
     ELSE IF IsInf(dx) \/ IsInf(dy) THEN PosInf
     ELSE IF Abs(dx[1]) \div dx[2] < 30 /\ Abs(dy[1]) \div dy[2] < 30
       THEN Norm(ISqrtNearest(RoundNum(dx[1], dx[2], FlDen) * RoundNum(dx[1], dx[2], FlDen)
                              + RoundNum(dy[1], dy[2], FlDen) * RoundNum(dy[1], dy[2], FlDen)),
                 FlDen)
     ELSE RSqrt(RAdd(RMul(dx, dx), RMul(dy, dy)))

\* point.position.distance( position )
DistanceTo(point, position) == Distance(point.x, point.y, position.x, position.y)

\* Util.toFixedNumber( a, 0 ): a rounded to the nearest integer
ToFixedNumber(a) ==
  IF IsFinite(a) THEN <<RoundNum(a[1], a[2], 1), 1>> ELSE a

\* a % m === 0
IsMultipleOf(a, m) == IsFinite(a) /\ a[2] = 1 /\ a[1] % m = 0

\* a trajectory: a projectile with its apex point
NewTrajectory(m) ==
  NewProjectile(m) @@ [apexPoint |-> Null, changedInMidAir |-> FALSE]

\* WithApex recording the apex at every change of sign, the later ones over
\* the first
WithApexOverwriting(before, r) ==
  IF /\ ~r.p.reachedGround
     /\ RLt(Zero, before.yVelocity)
     /\ RLe(r.p.yVelocity, Zero)
    THEN [r EXCEPT !.p.apexPoint = <<[Last(r.p.dataPoints) EXCEPT !.apex = TRUE]>>,
                   !.p.dataPoints[Len(r.p.dataPoints)].apex = TRUE]
    ELSE r

\* the apex of a step: the sample of the first step in flight whose vertical
\* velocity goes from positive to not positive
WithApex(before, r) ==
  IF /\ ~r.p.reachedGround
     /\ before.apexPoint = Null
     /\ RLt(Zero, before.yVelocity)
     /\ RLe(r.p.yVelocity, Zero)
    THEN [r EXCEPT !.p.apexPoint = <<[Last(r.p.dataPoints) EXCEPT !.apex = TRUE]>>,
                   !.p.dataPoints[Len(r.p.dataPoints)].apex = TRUE]
    ELSE r

\* the step of a trajectory
TrajectoryStep(t, dt, airResistanceOn, altitude) ==
  IF t.reachedGround THEN ProjectileStep(t, dt, airResistanceOn, altitude)
  ELSE WithApex(t, ProjectileStep(t, dt, airResistanceOn, altitude))

\* NearestFrom replacing the nearest point only by a strictly nearer one
RECURSIVE NearestFromStrict(_, _, _, _, _, _)
NearestFromStrict(dataPoints, x, y, i, nearestPoint, minDistance) ==
  IF i > Len(dataPoints) THEN nearestPoint
  ELSE LET currentPoint == dataPoints[i]
           currentDistance == Distance(currentPoint.x, currentPoint.y, x, y)
       IN IF RLt(currentDistance, minDistance)
            THEN NearestFromStrict(dataPoints, x, y, i + 1, currentPoint, currentDistance)
          ELSE NearestFromStrict(dataPoints, x, y, i + 1, nearestPoint, minDistance)

\* the loop of getNearestPoint from the data point at index i (counted from 1)
RECURSIVE NearestFrom(_, _, _, _, _, _)
NearestFrom(dataPoints, x, y, i, nearestPoint, minDistance) ==
  IF i > Len(dataPoints) THEN nearestPoint
  ELSE LET currentPoint == dataPoints[i]
           currentDistance == Distance(currentPoint.x, currentPoint.y, x, y)
       IN IF RLe(currentDistance, minDistance)
            THEN NearestFrom(dataPoints, x, y, i + 1, currentPoint, currentDistance)
          ELSE NearestFrom(dataPoints, x, y, i + 1, nearestPoint, minDistance)

\* GetNearestPoint finding no point in a log of one data point
GetNearestPointOffByOne(t, x, y) ==
  IF Len(t.dataPoints) <= 1 THEN Null
  ELSE <<NearestFrom(t.dataPoints, x, y, 1, t.dataPoints[1],
                     Distance(t.dataPoints[1].x, t.dataPoints[1].y, x, y))>>

\* Projectile.getNearestPoint( x, y ): null or a data point
GetNearestPoint(t, x, y) ==
  IF Len(t.dataPoints) = 0 THEN Null
  ELSE <<NearestFrom(t.dataPoints, x, y, 1, t.dataPoints[1],
                     Distance(t.dataPoints[1].x, t.dataPoints[1].y, x, y))>>

\* whether the tracer can read a point: it exists, and it is an apex, on the
\* ground or on a minor dot
PointIsReadable(point) ==
  /\ point # Null
  /\ \/ point[1].apex
     \/ point[1].y = Zero
     \/ IsMultipleOf(ToFixedNumber(RMul(point[1].time, R(1000, 1))), TIME_PER_MINOR_DOT)

\* ApexWithinRange without the test of the distance
ApexAnywhere(currentTrajectory, position) ==
  currentTrajectory.apexPoint # Null

\* whether the apex of a trajectory is within the sensing radius
ApexWithinRange(currentTrajectory, position) ==
  /\ currentTrajectory.apexPoint # Null
  /\ RLe(DistanceTo(currentTrajectory.apexPoint[1], position), SENSING_RADIUS)

\* ReadableWithinRange without the test of readability
ReadableWithinRangeUnread(point, position) ==
  /\ point # Null
  /\ RLe(DistanceTo(point[1], position), SENSING_RADIUS)

\* whether a point is readable and within the sensing radius
ReadableWithinRange(point, position) ==
  /\ PointIsReadable(point)
  /\ RLe(DistanceTo(point[1], position), SENSING_RADIUS)

\* LoopIndex from the first trajectory up to the last
LoopIndexForward(ts, k) == k

\* the index of the trajectory the loop of updateData examines in its k-th
\* round (both counted from 1): from the last trajectory down to the first
LoopIndex(ts, k) == Len(ts) + 1 - k

\* UpdateDataFrom without the test of the apex
RECURSIVE UpdateDataFromNearestOnly(_, _, _)
UpdateDataFromNearestOnly(tr, ts, k) ==
  IF k > Len(ts) THEN [tr EXCEPT !.dataPoint = Null]
  ELSE LET currentTrajectory == ts[LoopIndex(ts, k)]
           point == GetNearestPoint(currentTrajectory, tr.position.x, tr.position.y)
       IN IF ReadableWithinRange(point, tr.position)
            THEN [tr EXCEPT !.dataPoint = point]
          ELSE UpdateDataFromNearestOnly(tr, ts, k + 1)

\* the loop of updateData from its k-th round
RECURSIVE UpdateDataFrom(_, _, _)
UpdateDataFrom(tr, ts, k) ==
  IF k > Len(ts) THEN [tr EXCEPT !.dataPoint = Null]
  ELSE LET currentTrajectory == ts[LoopIndex(ts, k)]
           point == GetNearestPoint(currentTrajectory, tr.position.x, tr.position.y)
       IN IF ApexWithinRange(currentTrajectory, tr.position)
            THEN [tr EXCEPT !.dataPoint = currentTrajectory.apexPoint]
          ELSE IF ReadableWithinRange(point, tr.position)
            THEN [tr EXCEPT !.dataPoint = point]
          ELSE UpdateDataFrom(tr, ts, k + 1)

\* UpdateData moving the tracer onto the data point it has found
UpdateDataMovingTracer(tr, ts) ==
  IF UpdateDataFrom(tr, ts, 1).dataPoint = Null THEN UpdateDataFrom(tr, ts, 1)
  ELSE [UpdateDataFrom(tr, ts, 1) EXCEPT
          !.position = [x |-> UpdateDataFrom(tr, ts, 1).dataPoint[1].x,
                        y |-> UpdateDataFrom(tr, ts, 1).dataPoint[1].y]]

\* Tracer.updateData(): the tracer after the call
UpdateData(tr, ts) == UpdateDataFrom(tr, ts, 1)

\* UpdateDataIfWithinRange clearing the data point when the point is not taken
UpdateDataIfWithinRangeClearing(tr, point) ==
  IF ReadableWithinRange(point, tr.position)
    THEN [tr EXCEPT !.dataPoint = point]
  ELSE [tr EXCEPT !.dataPoint = Null]

\* Tracer.updateDataIfWithinRange( point ): the tracer after the call
UpdateDataIfWithinRange(tr, point) ==
  IF ReadableWithinRange(point, tr.position)
    THEN [tr EXCEPT !.dataPoint = point]
  ELSE tr

\* MemberDisposed without a listener
MemberDisposedUnheard(tr, ts) == tr

\* the listener of the disposal of a member of the group of trajectories,
\* called with the members that remain
MemberDisposed(tr, ts) == UpdateData(tr, ts)

\* the group of trajectories is cleared: its members are disposed one by one,
\* from the last to the first
RECURSIVE ClearTrajectories(_, _)
ClearTrajectories(tr, ts) ==
  IF Len(ts) = 0 THEN tr
  ELSE ClearTrajectories(MemberDisposed(tr, SubSeq(ts, 1, Len(ts) - 1)),
                         SubSeq(ts, 1, Len(ts) - 1))

\* the arguments of the calls of scoreModel.checkforScored in the results of
\* the steps of the trajectories, from the i-th on
RECURSIVE ScoredBy(_, _)
ScoredBy(results, i) ==
  IF i > Len(results) THEN <<>>
  ELSE results[i].scored \o ScoredBy(results, i + 1)

\* the number of trajectories in flight
RECURSIVE InFlight(_)
InFlight(ts) ==
  IF Len(ts) = 0 THEN 0
  ELSE (IF ts[1].reachedGround THEN 0 ELSE 1) + InFlight(Tail(ts))

----------------------------------------------------------------------------
(* The simulation with the tracer: a group of trajectories, fired, stepped   *)
(* together, erased and probed                                               *)

\* the largest number of trajectories in the group
MaxTrajectories == 2

\* the time step of the stepping loop, in seconds
TracerDtSet == {R(1, 4)}

\* a model that launches straight up, without air resistance
UpwardModel(cannonHeight, launchVelocity) ==
  [ cannonHeight |-> cannonHeight,
    cannonAngle |-> R(90, 1),
    launchVelocity |-> launchVelocity,
    projectileMass |-> R(5, 1),
    projectileDiameter |-> R(1, 1),
    projectileDragCoefficient |-> R(1, 1),
    airResistanceOn |-> FALSE,
    altitude |-> Zero ]

\* the launch configurations: straight up at 2.5 m/s from the ground, and
\* dropped from a height of 0.5 m
TracerModels == {UpwardModel(Zero, R(5, 2)), UpwardModel(R(1, 2), Zero)}

\* the positions the tracer is dragged to
ProbeSet ==
  { [x |-> Zero, y |-> Zero],
    [x |-> Zero, y |-> R(619, 6400)],
    [x |-> Zero, y |-> R(1, 5)],
    [x |-> R(10, 1), y |-> R(10, 1)] }

InitTracer ==
  /\ model \in TracerModels
  /\ fired = LaunchOf(model)
  /\ projectile = NewProjectile(model)
  /\ scored = <<>>
  /\ call = <<>>
  /\ dragUsed = FALSE
  /\ vectorVisibilityProperties = NewVectorsVectorVisibilityProperties
  /\ NoTrajectories

\* the cannon is fired: a trajectory is added to the group
Fire ==
  /\ Len(trajectories) < MaxTrajectories
  /\ trajectories' = Append(trajectories, NewTrajectory(model))
  /\ event' = <<>>
  /\ UNCHANGED <<model, fired, projectile, scored, call, dragUsed, tracer, vectorVisibilityProperties>>

\* model.stepModelElements( dt ): every trajectory is stepped, in the order of
\* creation
StepModelElements(dt) ==
  /\ InFlight(trajectories) > 0
  /\ \A i \in 1..Len(trajectories) :
       \/ trajectories[i].reachedGround
       \/ /\ Len(trajectories[i].dataPoints) < MaxPoints
          /\ RLe(trajectories[i].velocity, R(MaxSpeed, 1))
  /\ LET results == [i \in 1..Len(trajectories) |->
                       TrajectoryStep(trajectories[i], dt, model.airResistanceOn, model.altitude)]
     IN /\ trajectories' = [i \in 1..Len(trajectories) |-> results[i].p]
        /\ scored' = scored \o ScoredBy(results, 1)
  /\ event' = <<>>
  /\ UNCHANGED <<model, fired, projectile, call, dragUsed, tracer, vectorVisibilityProperties>>

\* the tracer is dragged to a position: the listener of positionProperty
\* calls tracer.updateData()
MoveTracer(position) ==
  /\ tracer' = UpdateData([tracer EXCEPT !.position = position], trajectories)
  /\ event' = <<[name |-> "updateData"]>>
  /\ UNCHANGED <<model, fired, projectile, scored, call, dragUsed, trajectories, vectorVisibilityProperties>>

\* a caller asks the i-th trajectory for the data point nearest to ( x, y )
NearestPointQuery(i, position) ==
  /\ i \in 1..Len(trajectories)
  /\ event' = <<[name |-> "getNearestPoint",
                 trajectory |-> i,
                 position |-> position,
                 result |-> GetNearestPoint(trajectories[i], position.x, position.y)]>>
  /\ UNCHANGED <<model, fired, projectile, scored, call, dragUsed, trajectories, tracer, vectorVisibilityProperties>>

\* model.eraseTrajectories(): the group is cleared, and with it the log of
\* the notifications of its trajectories
EraseTrajectories ==
  /\ trajectories' = <<>>
  /\ tracer' = ClearTrajectories(tracer, trajectories)
  /\ scored' = <<>>
  /\ event' = <<[name |-> "eraseTrajectories",
                 inFlight |-> InFlight(trajectories),
                 held |-> tracer.dataPoint]>>
  /\ UNCHANGED <<model, fired, projectile, call, dragUsed, vectorVisibilityProperties>>

\* the user sets the cannon to another launch configuration
SetCannon(m) ==
  /\ model # m
  /\ model' = m
  /\ event' = <<>>
  /\ UNCHANGED <<fired, projectile, scored, call, dragUsed, trajectories, tracer, vectorVisibilityProperties>>

NextTracer ==
  \/ Fire
  \/ \E m \in TracerModels : SetCannon(m)
  \/ \E dt \in TracerDtSet : StepModelElements(dt)
  \/ \E position \in ProbeSet : MoveTracer(position)
  \/ EraseTrajectories

SpecTracer == InitTracer /\ [][NextTracer]_vars

\* the same group of trajectories, asked for nearest points
NextNearest ==
  \/ Fire
  \/ \E dt \in TracerDtSet : StepModelElements(dt)
  \/ \E i \in 1..MaxTrajectories, position \in ProbeSet : NearestPointQuery(i, position)

SpecNearest == InitTracer /\ [][NextNearest]_vars

----------------------------------------------------------------------------
(* Properties of getNearestPoint and of the tracer *)

\* the last operation is the one of this name
EventIs(name) == event # <<>> /\ event[1].name = name

\* the indices of the data points of a log at the least distance to a position
Closest(dataPoints, position) ==
  { k \in 1..Len(dataPoints) :
      \A j \in 1..Len(dataPoints) :
        RLe(DistanceTo(dataPoints[k], position), DistanceTo(dataPoints[j], position)) }

\* C12: getNearestPoint( x, y ) returns null if and only if dataPoints is
\* empty, for every query position
C12_NullIffEmpty ==
  EventIs("getNearestPoint") =>
    ((event[1].result = Null)
       <=> (Len(trajectories[event[1].trajectory].dataPoints) = 0))

\* a query on the empty log of a trajectory just fired, next to a trajectory
\* with data points
C12_Witness ==
  /\ EventIs("getNearestPoint")
  /\ event[1].result = Null
  /\ \E i \in 1..Len(trajectories) : Len(trajectories[i].dataPoints) >= 2

\* C13: on a non-empty log getNearestPoint( x, y ) returns a data point of the
\* log at the least distance to ( x, y ), and the one recorded last among
\* those at that distance
C13_NearestLatest ==
  (/\ EventIs("getNearestPoint")
   /\ Len(trajectories[event[1].trajectory].dataPoints) > 0) =>
    LET dataPoints == trajectories[event[1].trajectory].dataPoints
        closest == Closest(dataPoints, event[1].position)
    IN /\ event[1].result # Null
       /\ \E k \in closest :
            /\ event[1].result[1] = dataPoints[k]
            /\ \A j \in closest : j <= k

\* a query at the same least distance from two data points
C13_Witness ==
  /\ EventIs("getNearestPoint")
  /\ Len(trajectories[event[1].trajectory].dataPoints) >= 2
  /\ Cardinality(Closest(trajectories[event[1].trajectory].dataPoints,
                         event[1].position)) >= 2
  /\ event[1].result # Null
  /\ event[1].result[1] = Last(trajectories[event[1].trajectory].dataPoints)

\* a trajectory yields a match at a position: its apex is within the sensing
\* radius, or its nearest data point is readable and within the sensing radius
Matches(t, position) ==
  \/ ApexWithinRange(t, position)
  \/ ReadableWithinRange(GetNearestPoint(t, position.x, position.y), position)

\* the data points of a trajectory that are not its apex and are strictly
\* nearer to a position than its apex is
NearerThanApex(t, position) ==
  { k \in 1..Len(t.dataPoints) :
      /\ ~t.dataPoints[k].apex
      /\ RLt(DistanceTo(t.dataPoints[k], position),
             DistanceTo(t.apexPoint[1], position)) }

\* C14: updateData sets dataPointProperty to the apex of the first trajectory,
\* from the last created down, that yields a match, whenever the tracer is
\* within the sensing radius of that apex, also when another data point of
\* that trajectory is strictly nearer
C14_ApexPriority ==
  EventIs("updateData") =>
    \A i \in 1..Len(trajectories) :
      (/\ ApexWithinRange(trajectories[i], tracer.position)
       /\ \A j \in (i + 1)..Len(trajectories) :
            ~Matches(trajectories[j], tracer.position)) =>
        tracer.dataPoint = trajectories[i].apexPoint

\* the tracer shows the apex of a trajectory that has a readable data point
\* strictly nearer to the tracer
C14_Witness ==
  /\ EventIs("updateData")
  /\ \E i \in 1..Len(trajectories) :
       /\ ApexWithinRange(trajectories[i], tracer.position)
       /\ tracer.dataPoint = trajectories[i].apexPoint
       /\ \A j \in (i + 1)..Len(trajectories) :
            ~Matches(trajectories[j], tracer.position)
       /\ \E k \in NearerThanApex(trajectories[i], tracer.position) :
            PointIsReadable(<<trajectories[i].dataPoints[k]>>)

\* the data point updateData takes from a trajectory that yields a match
MatchOf(t, position) ==
  IF ApexWithinRange(t, position) THEN t.apexPoint
  ELSE GetNearestPoint(t, position.x, position.y)

\* C15: when two trajectories both yield a match, updateData selects the data
\* point of the one created later, whichever is nearer to the tracer
C15_MostRecentFirst ==
  EventIs("updateData") =>
    \A i \in 1..Len(trajectories) :
      \A j \in (i + 1)..Len(trajectories) :
        (/\ Matches(trajectories[i], tracer.position)
         /\ Matches(trajectories[j], tracer.position)
         /\ \A m \in (j + 1)..Len(trajectories) :
              ~Matches(trajectories[m], tracer.position)) =>
          tracer.dataPoint = MatchOf(trajectories[j], tracer.position)

\* two trajectories yield a match, the tracer shows the data point of the one
\* created later, and the data point of the older one is strictly nearer
C15_Witness ==
  /\ EventIs("updateData")
  /\ Len(trajectories) = 2
  /\ Matches(trajectories[1], tracer.position)
  /\ Matches(trajectories[2], tracer.position)
  /\ tracer.dataPoint = MatchOf(trajectories[2], tracer.position)
  /\ RLt(DistanceTo(MatchOf(trajectories[1], tracer.position)[1], tracer.position),
         DistanceTo(tracer.dataPoint[1], tracer.position))

\* the readable data points of a trajectory within the sensing radius of a
\* position
ReadableInRange(t, position) ==
  { k \in 1..Len(t.dataPoints) :
      /\ PointIsReadable(<<t.dataPoints[k]>>)
      /\ RLe(DistanceTo(t.dataPoints[k], position), SENSING_RADIUS) }

\* there is a single trajectory, and its apex is not within the sensing radius
SingleTrajectoryApexOutOfRange ==
  /\ EventIs("updateData")
  /\ Len(trajectories) = 1
  /\ ~ApexWithinRange(trajectories[1], tracer.position)

\* C16 as claimed: with a single trajectory whose apex is not within the
\* sensing radius, updateData returns the nearest of the readable data points
\* within the sensing radius, and null only when there is none
C16_NearestReadable ==
  SingleTrajectoryApexOutOfRange =>
    LET dataPoints == trajectories[1].dataPoints
        readable == ReadableInRange(trajectories[1], tracer.position)
    IN IF readable = {} THEN tracer.dataPoint = Null
       ELSE /\ tracer.dataPoint # Null
            /\ \E k \in readable :
                 /\ tracer.dataPoint[1] = dataPoints[k]
                 /\ \A j \in readable :
                      RLe(DistanceTo(dataPoints[k], tracer.position),
                          DistanceTo(dataPoints[j], tracer.position))

\* C16 as amended: with a single trajectory whose apex is not within the
\* sensing radius, updateData returns the data point nearest to the tracer
\* among all data points of the trajectory (the last recorded of them) when
\* that data point is readable and within the sensing radius, and null in
\* every other case
C16_NearestIfReadable ==
  SingleTrajectoryApexOutOfRange =>
    LET dataPoints == trajectories[1].dataPoints
        closest == Closest(dataPoints, tracer.position)
        readable == ReadableInRange(trajectories[1], tracer.position)
    IN IF \E k \in closest : (\A j \in closest : j <= k) /\ k \in readable
         THEN /\ tracer.dataPoint # Null
              /\ \E k \in closest \cap readable :
                   /\ \A j \in closest : j <= k
                   /\ tracer.dataPoint[1] = dataPoints[k]
       ELSE tracer.dataPoint = Null

\* the tracer shows nothing although a readable data point of the single
\* trajectory is within the sensing radius: an unreadable one is nearer
C16_Witness ==
  /\ SingleTrajectoryApexOutOfRange
  /\ tracer.dataPoint = Null
  /\ ReadableInRange(trajectories[1], tracer.position) # {}
  /\ Closest(trajectories[1].dataPoints, tracer.position)
       \cap ReadableInRange(trajectories[1], tracer.position) = {}

\* C17: once the trajectories are erased the group is empty and the tracer
\* shows nothing, and it shows nothing as long as the group is empty, wherever
\* it is dragged
C17_ErasedTracerShowsNothing ==
  /\ EventIs("eraseTrajectories") => Len(trajectories) = 0
  /\ Len(trajectories) = 0 => tracer.dataPoint = Null

\* the trajectories were erased while two of them were in flight and the
\* tracer showed a data point
C17_Witness ==
  /\ EventIs("eraseTrajectories")
  /\ event[1].inFlight >= 2
  /\ event[1].held # Null
  /\ Len(trajectories) = 0
  /\ tracer.dataPoint = Null

----------------------------------------------------------------------------
(* TrajectoryIO: the state object of a trajectory *)

\* ioTypeSchema: the type that serializes each field of a trajectory
ioTypeSchema ==
  [ mass |-> "NumberIO",
    diameter |-> "NumberIO",
    dragCoefficient |-> "NumberIO",
    changedInMidAir |-> "BooleanIO",
    reachedGround |-> "BooleanIO",
    apexPoint |-> "NullableIO( DataPointIO )" ]

\* DataPointIO.toStateObject( point ): the fields of a data point
DataPointToStateObject(point) ==
  [time |-> point.time, x |-> point.x, y |-> point.y, apex |-> point.apex]

\* phetioType.toStateObject( value )
PhetioToStateObject(phetioType, value) ==
  CASE phetioType = "NumberIO" -> value
    [] phetioType = "BooleanIO" -> value
    [] phetioType = "NullableIO( DataPointIO )" ->
         IF value = Null THEN Null ELSE <<DataPointToStateObject(value[1])>>

\* ToStateObject taking every field of the trajectory
ToStateObjectEveryField(trajectory) == trajectory

\* TrajectoryIO.toStateObject( trajectory )
ToStateObject(trajectory) ==
  [ fieldName \in DOMAIN ioTypeSchema |->
      PhetioToStateObject(ioTypeSchema[fieldName], trajectory[fieldName]) ]

\* the state of the i-th trajectory is exported
ExportState(i) ==
  /\ i \in 1..Len(trajectories)
  /\ event' = <<[name |-> "toStateObject",
                 trajectory |-> i,
                 stateObject |-> ToStateObject(trajectories[i])]>>
  /\ UNCHANGED <<model, fired, projectile, scored, call, dragUsed, trajectories, tracer, vectorVisibilityProperties>>

NextIO ==
  \/ Fire
  \/ \E m \in TracerModels : SetCannon(m)
  \/ \E dt \in TracerDtSet : StepModelElements(dt)
  \/ \E i \in 1..MaxTrajectories : ExportState(i)

SpecIO == InitTracer /\ [][NextIO]_vars

\* C18: toStateObject returns an object with exactly the keys mass, diameter,
\* dragCoefficient, changedInMidAir, reachedGround and apexPoint, whose
\* apexPoint is null when the trajectory has no apex; the data points are not
\* part of it
C18_StateObjectKeys ==
  EventIs("toStateObject") =>
    /\ DOMAIN event[1].stateObject
         = {"mass", "diameter", "dragCoefficient", "changedInMidAir",
            "reachedGround", "apexPoint"}
    /\ "dataPoints" \notin DOMAIN event[1].stateObject
    /\ trajectories[event[1].trajectory].apexPoint = Null
         => event[1].stateObject["apexPoint"] = Null

\* the state of a trajectory with data points and no apex was exported, next
\* to a trajectory with an apex
C18_Witness ==
  /\ EventIs("toStateObject")
  /\ trajectories[event[1].trajectory].apexPoint = Null
  /\ Len(trajectories[event[1].trajectory].dataPoints) >= 1
  /\ event[1].stateObject["apexPoint"] = Null
  /\ \E i \in 1..Len(trajectories) : trajectories[i].apexPoint # Null

----------------------------------------------------------------------------
(* Properties of the apex of a trajectory *)

\* C20: whenever a trajectory has an apex, the y of the apex is at least the y
\* of every data point of that trajectory
C20_ApexIsHighest ==
  \A i \in 1..Len(trajectories) :
    trajectories[i].apexPoint # Null =>
      \A k \in 1..Len(trajectories[i].dataPoints) :
        RLe(trajectories[i].dataPoints[k].y, trajectories[i].apexPoint[1].y)

----------------------------------------------------------------------------
(* The simulation with a model whose launch parameters change in mid air *)

\* the values the user sets each launch parameter of the model to
LaunchValues ==
  [ cannonHeight |-> {R(1, 2), R(1, 1)},
    cannonAngle |-> {R(3687, 100), R(5313, 100)},
    launchVelocity |-> {R(5, 1), R(10, 1)},
    projectileMass |-> {R(5, 1), R(1205, 981)},
    projectileDiameter |-> {R(1, 1), R(1, 2)},
    projectileDragCoefficient |-> {R(1, 1), R(1, 2)} ]

InitMidAir ==
  /\ model = [ cannonHeight |-> R(1, 2),
               cannonAngle |-> R(3687, 100),
               launchVelocity |-> R(5, 1),
               projectileMass |-> R(5, 1),
               projectileDiameter |-> R(1, 1),
               projectileDragCoefficient |-> R(1, 1),
               airResistanceOn |-> FALSE,
               altitude |-> Zero ]
  /\ fired = LaunchOf(model)
  /\ projectile = NewProjectile(model)
  /\ scored = <<>>
  /\ call = <<>>
  /\ dragUsed = FALSE
  /\ vectorVisibilityProperties = NewVectorsVectorVisibilityProperties
  /\ NoTrajectories

\* the user sets a launch parameter of the model
SetLaunchParameter(name, value) ==
  /\ model[name] # value
  /\ model' = [model EXCEPT ![name] = value]
  /\ UNCHANGED <<fired, projectile, scored, call, dragUsed, trajectories, tracer, event, vectorVisibilityProperties>>

NextMidAir ==
  \/ \E dt \in DtSet : Step(dt)
  \/ \E on \in BOOLEAN : SetAirResistanceOn(on)
  \/ \E altitude \in AltitudeSet : SetAltitude(altitude)
  \/ \E name \in DOMAIN LaunchValues : \E value \in LaunchValues[name] :
       SetLaunchParameter(name, value)

SpecMidAir == InitMidAir /\ [][NextMidAir]_vars

\* without air resistance so far, every sample but the one of the landing
\* lies on the closed-form trajectory of the launch
FlightOnClosedForm ==
  ~dragUsed =>
    \A i \in 1..(Len(projectile.dataPoints) - (IF projectile.reachedGround THEN 1 ELSE 0)) :
      /\ projectile.dataPoints[i].x = ClosedFormX(projectile.dataPoints[i].time)
      /\ projectile.dataPoints[i].y = ClosedFormY(projectile.dataPoints[i].time)

\* the drag of the projectile as it was launched, under the air of the model
LaunchedDrag(component) ==
  DragForce([diameter |-> fired.projectileDiameter,
             dragCoefficient |-> fired.projectileDragCoefficient,
             velocity |-> projectile.velocity],
            AirDensity(model.airResistanceOn, model.altitude), component)

\* C19: a change of the launch velocity, cannon angle, cannon height, mass,
\* diameter or drag coefficient of the model leaves the projectile in flight
\* as it is, and every later step of it uses the mass, diameter and drag
\* coefficient of its launch on the trajectory of its launch, under the air
\* resistance and altitude the model has at that step
C19_MidAirChanges ==
  /\ []FlightOnClosedForm
  /\ [][/\ LaunchOf(model') # LaunchOf(model) => projectile' = projectile
        /\ (projectile' # projectile /\ ~projectile.reachedGround) =>
             /\ projectile'.mass = fired.projectileMass
             /\ projectile'.diameter = fired.projectileDiameter
             /\ projectile'.dragCoefficient = fired.projectileDragCoefficient
             /\ projectile'.xAcceleration
                  = RDiv(RNeg(LaunchedDrag(projectile.xVelocity)), fired.projectileMass)
             /\ projectile'.yAcceleration
                  = RSub(RNeg(ACCELERATION_DUE_TO_GRAVITY),
                         RDiv(LaunchedDrag(projectile.yVelocity), fired.projectileMass))]_vars

\* every launch parameter of the model was changed in mid air, and air
\* resistance was switched on between two steps of the projectile
C19_Witness ==
  /\ call # <<>>
  /\ ~call[1].before.reachedGround
  /\ Len(call[1].before.dataPoints) >= 1
  /\ call[1].before.xAcceleration = Zero
  /\ projectile.xAcceleration # Zero
  /\ model.airResistanceOn
  /\ \A name \in DOMAIN LaunchValues : model[name] # fired[name]

----------------------------------------------------------------------------
(* The flight of one trajectory through air that is switched on and off *)

\* the longest sample log of a trajectory of this flight
MaxFlightPoints == 5

\* the time steps of this flight, in seconds
FlightDtSet == {R(1, 4), R(1, 2)}

\* the launch configurations: a light projectile, straight up at 1 m/s or at
\* 2.5 m/s from a height of 10 m
FlightModels ==
  { [UpwardModel(R(10, 1), R(1, 1)) EXCEPT !.projectileMass = R(1205, 981)],
    [UpwardModel(R(10, 1), R(5, 2)) EXCEPT !.projectileMass = R(1205, 981)] }

InitFlight ==
  /\ model \in FlightModels
  /\ fired = LaunchOf(model)
  /\ projectile = NewProjectile(model)
  /\ scored = <<>>
  /\ call = <<>>
  /\ dragUsed = FALSE
  /\ vectorVisibilityProperties = NewVectorsVectorVisibilityProperties
  /\ trajectories = <<NewTrajectory(model)>>
  /\ tracer = NewTracer(R(10, 1), R(10, 1))
  /\ event = <<>>

\* model.stepModelElements( dt ) on this flight
StepFlight(dt) ==
  /\ InFlight(trajectories) > 0
  /\ \A i \in 1..Len(trajectories) :
       \/ trajectories[i].reachedGround
       \/ /\ Len(trajectories[i].dataPoints) < MaxFlightPoints
          /\ RLe(trajectories[i].velocity, R(MaxSpeed, 1))
  /\ LET results == [i \in 1..Len(trajectories) |->
                       TrajectoryStep(trajectories[i], dt, model.airResistanceOn, model.altitude)]
     IN /\ trajectories' = [i \in 1..Len(trajectories) |-> results[i].p]
        /\ scored' = scored \o ScoredBy(results, 1)
  /\ event' = <<[name |-> "stepModelElements", before |-> trajectories]>>
  /\ UNCHANGED <<model, fired, projectile, call, dragUsed, tracer, vectorVisibilityProperties>>

NextFlight ==
  \/ \E dt \in FlightDtSet : StepFlight(dt)
  \/ \E on \in BOOLEAN : SetAirResistanceOn(on)

SpecFlight == InitFlight /\ [][NextFlight]_vars

\* the apex of every trajectory is one of its own data points, the only one
\* marked as the apex
ApexOwned ==
  \A i \in 1..Len(trajectories) :
    LET t == trajectories[i]
        marked == {k \in 1..Len(t.dataPoints) : t.dataPoints[k].apex}
    IN IF t.apexPoint = Null THEN marked = {}
       ELSE /\ Cardinality(marked) = 1
            /\ \A k \in marked : t.dataPoints[k] = t.apexPoint[1]

\* C21: a trajectory has at most one apex sample over its whole life: the
\* apex is set by the first step in flight whose vertical velocity goes from
\* positive to not positive, no later step replaces it, whatever the sign of
\* the vertical velocity does, and the apex is one of the data points of the
\* trajectory
C21_OneApexFirstWins ==
  /\ []ApexOwned
  /\ [][\A i \in 1..Len(trajectories) :
          i <= Len(trajectories') =>
            /\ trajectories[i].apexPoint # Null =>
                 trajectories'[i].apexPoint = trajectories[i].apexPoint
            /\ (trajectories[i].apexPoint = Null /\ trajectories'[i].apexPoint # Null) =>
                 /\ RLt(Zero, trajectories[i].yVelocity)
                 /\ RLe(trajectories'[i].yVelocity, Zero)
                 /\ trajectories'[i].apexPoint[1]
                      = trajectories'[i].dataPoints[Len(trajectories'[i].dataPoints)]
            /\ (/\ trajectories[i].apexPoint = Null
                /\ trajectories'[i].dataPoints # trajectories[i].dataPoints
                /\ ~trajectories'[i].reachedGround
                /\ RLt(Zero, trajectories[i].yVelocity)
                /\ RLe(trajectories'[i].yVelocity, Zero)) =>
                 trajectories'[i].apexPoint # Null]_vars

\* a trajectory with an apex rose again and, in its last step, its vertical
\* velocity went from positive to not positive a second time, in flight
C21_Witness ==
  /\ EventIs("stepModelElements")
  /\ event[1].before[1].apexPoint # Null
  /\ RLt(Zero, event[1].before[1].yVelocity)
  /\ RLe(trajectories[1].yVelocity, Zero)
  /\ ~trajectories[1].reachedGround
  /\ trajectories[1].apexPoint = event[1].before[1].apexPoint
  /\ trajectories[1].apexPoint[1] # Last(trajectories[1].dataPoints)

----------------------------------------------------------------------------
(* Two projectiles in flight, stepped one at a time in either order *)

\* the launch configurations of the two projectiles: at 36.87 degrees and
\* 5 m/s from the ground, and dropped from a height of 2 m
PairModels ==
  << [UpwardModel(Zero, R(5, 1)) EXCEPT !.cannonAngle = R(3687, 100)],
     UpwardModel(R(2, 1), Zero) >>

\* StepIn with the elapsed time kept in one place for all projectiles
StepInShared(ts, i, dt, airResistanceOn, altitude) ==
  [k \in 1..Len(ts) |->
     IF k = i THEN ProjectileStep(ts[i], dt, airResistanceOn, altitude).p
     ELSE [ts[k] EXCEPT !.totalTime =
             ProjectileStep(ts[i], dt, airResistanceOn, altitude).p.totalTime]]

\* the projectiles after the i-th of them is stepped: step assigns to the
\* fields of this projectile only
StepIn(ts, i, dt, airResistanceOn, altitude) ==
  [ts EXCEPT ![i] = ProjectileStep(ts[i], dt, airResistanceOn, altitude).p]

InitPair ==
  /\ model = PairModels[1]
  /\ fired = LaunchOf(model)
  /\ projectile = NewProjectile(model)
  /\ scored = <<>>
  /\ call = <<>>
  /\ dragUsed = FALSE
  /\ vectorVisibilityProperties = NewVectorsVectorVisibilityProperties
  /\ trajectories = <<NewTrajectory(PairModels[1]), NewTrajectory(PairModels[2])>>
  /\ tracer = NewTracer(R(10, 1), R(10, 1))
  /\ event = <<>>

\* the i-th projectile is stepped: projectile.step( dt ); the event keeps the
\* step before it
StepTrajectory(i, dt) ==
  /\ i \in 1..Len(trajectories)
  /\ \/ trajectories[i].reachedGround
     \/ /\ Len(trajectories[i].dataPoints) < MaxPoints
        /\ RLe(trajectories[i].velocity, R(MaxSpeed, 1))
  /\ trajectories' = StepIn(trajectories, i, dt, model.airResistanceOn, model.altitude)
  /\ scored' = scored \o ProjectileStep(trajectories[i], dt, model.airResistanceOn, model.altitude).scored
  /\ event' = <<[name |-> "step",
                 trajectory |-> i,
                 dt |-> dt,
                 airResistanceOn |-> model.airResistanceOn,
                 before |-> trajectories,
                 previous |-> IF event = <<>> THEN <<>>
                              ELSE <<[trajectory |-> event[1].trajectory,
                                      dt |-> event[1].dt,
                                      airResistanceOn |-> event[1].airResistanceOn,
                                      before |-> event[1].before]>>]>>
  /\ UNCHANGED <<model, fired, projectile, call, dragUsed, tracer, vectorVisibilityProperties>>

NextPair ==
  \/ \E i \in 1..2, dt \in DtSet : StepTrajectory(i, dt)
  \/ \E on \in BOOLEAN : SetAirResistanceOn(on)

SpecPair == InitPair /\ [][NextPair]_vars

\* the last two steps were steps of two projectiles, one each, of the same dt
\* under the same air
SteppedBoth ==
  /\ EventIs("step")
  /\ event[1].previous # <<>>
  /\ event[1].previous[1].trajectory # event[1].trajectory
  /\ event[1].previous[1].dt = event[1].dt
  /\ event[1].previous[1].airResistanceOn = event[1].airResistanceOn

\* the k-th projectile as it was before the last two steps, after one step of
\* its own
SteppedAlone(k) ==
  ProjectileStep(event[1].previous[1].before[k], event[1].dt,
                 event[1].airResistanceOn, model.altitude)

\* after steps of two projectiles, in whichever order they were taken, each
\* of the two is as it is after its own step alone, and the notifications of
\* the two steps are the last ones, in the order of the steps
OrderIndependent ==
  SteppedBoth =>
    /\ \A k \in 1..Len(trajectories) : trajectories[k] = SteppedAlone(k).p
    /\ \E rest \in {SubSeq(scored, 1, n) : n \in 0..Len(scored)} :
         scored = rest \o SteppedAlone(event[1].previous[1].trajectory).scored
                       \o SteppedAlone(event[1].trajectory).scored

\* C22: stepping two projectiles in the order A, B yields the same state and
\* sample log for each of them as the order B, A, and a step of one
\* projectile changes no field and no sample of the other; only the order of
\* the notifications of the landings follows the order of the steps
C22_OrderIndependence ==
  /\ []OrderIndependent
  /\ [][\A i, j \in 1..Len(trajectories) :
          (trajectories' # trajectories /\ event'[1].trajectory = i /\ j # i) =>
            trajectories'[j] = trajectories[j]]_vars

\* two projectiles in flight with samples of their own were stepped one
\* after the other and landed at two places: the other order of the two
\* steps notifies the landings in the other order
C22_Witness ==
  /\ SteppedBoth
  /\ \A k \in 1..2 :
       /\ ~event[1].previous[1].before[k].reachedGround
       /\ Len(event[1].previous[1].before[k].dataPoints) >= 1
       /\ trajectories[k].reachedGround
  /\ Len(scored) = 2
  /\ scored[1] # scored[2]

----------------------------------------------------------------------------
(* Properties of the steps without air resistance *)

\* C23: while air resistance is off, every step of a projectile in flight, at
\* every altitude, uses an air density of exactly 0: it sets xAcceleration to
\* 0 and yAcceleration to -g, and leaves xVelocity as it is
C23_NoAirNoDrag ==
  [][(/\ projectile' # projectile
      /\ ~projectile.reachedGround
      /\ ~model.airResistanceOn) =>
       /\ projectile'.xAcceleration = Zero
       /\ projectile'.yAcceleration = RNeg(ACCELERATION_DUE_TO_GRAVITY)
       /\ projectile'.xVelocity = projectile.xVelocity]_vars

\* a projectile that moves sideways was stepped in flight at an altitude of
\* 12000 m, where the air has a density, and no step of it has used drag
C23_Witness ==
  /\ call # <<>>
  /\ ~dragUsed
  /\ ~model.airResistanceOn
  /\ model.altitude = R(12000, 1)
  /\ ~call[1].before.reachedGround
  /\ Len(call[1].before.dataPoints) >= 1
  /\ call[1].before.xVelocity # Zero
  /\ projectile.xVelocity = call[1].before.xVelocity
  /\ projectile.xAcceleration = Zero

----------------------------------------------------------------------------
(* The simulation with the public methods of the tracer and the queries of   *)
(* the trajectories called one by one                                        *)

\* a caller calls tracer.updateData() on the tracer where it is
UpdateDataCall ==
  /\ tracer' = UpdateData(tracer, trajectories)
  /\ event' = <<[name |-> "updateData", position |-> tracer.position]>>
  /\ UNCHANGED <<model, fired, projectile, scored, call, dragUsed, trajectories, vectorVisibilityProperties>>

\* a caller calls tracer.updateDataIfWithinRange( point ) with null (i = 0)
\* or with the k-th data point of the i-th trajectory
UpdateDataIfWithinRangeCall(i, k) ==
  /\ i \in 0..Len(trajectories)
  /\ i = 0 => k = 1
  /\ i > 0 => k \in 1..Len(trajectories[i].dataPoints)
  /\ LET point == IF i = 0 THEN Null ELSE <<trajectories[i].dataPoints[k]>>
     IN /\ tracer' = UpdateDataIfWithinRange(tracer, point)
        /\ event' = <<[name |-> "updateDataIfWithinRange",
                       point |-> point,
                       tracer |-> tracer]>>
  /\ UNCHANGED <<model, fired, projectile, scored, call, dragUsed, trajectories, vectorVisibilityProperties>>

NextProbe ==
  \/ Fire
  \/ \E dt \in TracerDtSet : StepModelElements(dt)
  \/ \E position \in ProbeSet : MoveTracer(position)
  \/ UpdateDataCall
  \/ \E i \in 1..MaxTrajectories, position \in ProbeSet : NearestPointQuery(i, position)
  \/ \E i \in 0..MaxTrajectories, k \in 1..MaxPoints : UpdateDataIfWithinRangeCall(i, k)

SpecProbe == InitTracer /\ [][NextProbe]_vars

\* C24: getNearestPoint and Tracer.updateData never modify a trajectory: after
\* either call the data points, the apex, the reachedGround flag and the
\* kinematic state of every trajectory are as before; getNearestPoint leaves
\* the tracer alone, and updateData changes nothing of the tracer but its
\* data point
C24_QueriesReadOnly ==
  [][(event' # <<>> /\ event'[1].name \in {"getNearestPoint", "updateData"}) =>
       /\ trajectories' = trajectories
       /\ model' = model
       /\ event'[1].name = "getNearestPoint" => tracer' = tracer
       /\ event'[1].name = "updateData" =>
            /\ tracer'.isActive = tracer.isActive
            /\ "position" \in DOMAIN event'[1] =>
                 tracer' = [tracer EXCEPT !.dataPoint = tracer'.dataPoint]]_vars

\* updateData was called between two steps of a flight, and found a data
\* point that is not where the tracer is
C24_Witness ==
  /\ EventIs("updateData")
  /\ "position" \in DOMAIN event[1]
  /\ InFlight(trajectories) > 0
  /\ tracer.dataPoint # Null
  /\ DistanceTo(tracer.dataPoint[1], tracer.position) # Zero
  /\ \E i \in 1..Len(trajectories) : Len(trajectories[i].dataPoints) >= 2

\* C26: after every call of Tracer.updateData the data point of the tracer is
\* null, or it is a data point of a trajectory of the group, within
\* SENSING_RADIUS of the position of the tracer, and readable: the apex, or
\* at y = 0, or at a time that is a multiple of TIME_PER_MINOR_DOT ms
C26_DataPointReadableInRange ==
  (EventIs("updateData") /\ tracer.dataPoint # Null) =>
    /\ \E i \in 1..Len(trajectories) :
         \E k \in 1..Len(trajectories[i].dataPoints) :
           trajectories[i].dataPoints[k] = tracer.dataPoint[1]
    /\ RLe(DistanceTo(tracer.dataPoint[1], tracer.position), SENSING_RADIUS)
    /\ \/ tracer.dataPoint[1].apex
       \/ tracer.dataPoint[1].y = Zero
       \/ IsMultipleOf(ToFixedNumber(RMul(tracer.dataPoint[1].time, R(1000, 1))),
                       TIME_PER_MINOR_DOT)

\* updateData found the sample of a landing, not an apex, where the tracer
\* is, next to a sample of the same flight within the sensing radius that is
\* not readable
C26_Witness ==
  /\ EventIs("updateData")
  /\ tracer.dataPoint # Null
  /\ ~tracer.dataPoint[1].apex
  /\ tracer.dataPoint[1].y = Zero
  /\ \E i \in 1..Len(trajectories) :
       \E k \in 1..Len(trajectories[i].dataPoints) :
         /\ ~PointIsReadable(<<trajectories[i].dataPoints[k]>>)
         /\ RLe(DistanceTo(trajectories[i].dataPoints[k], tracer.position), SENSING_RADIUS)

\* C27: Tracer.updateDataIfWithinRange( point ) sets the data point of the
\* tracer to point exactly when point is not null, readable and within
\* SENSING_RADIUS of the tracer; in every other case it leaves the data point
\* as it is, never clearing it, and it never changes the position or
\* isActive
C27_UpdateIfWithinRange ==
  EventIs("updateDataIfWithinRange") =>
    /\ tracer.position = event[1].tracer.position
    /\ tracer.isActive = event[1].tracer.isActive
    /\ IF /\ event[1].point # Null
          /\ PointIsReadable(event[1].point)
          /\ RLe(DistanceTo(event[1].point[1], event[1].tracer.position), SENSING_RADIUS)
         THEN tracer.dataPoint = event[1].point
       ELSE tracer.dataPoint = event[1].tracer.dataPoint

\* the tracer held a data point when updateDataIfWithinRange was called with
\* another point, within the sensing radius and not readable: the tracer
\* holds the data point it held
C27_Witness ==
  /\ EventIs("updateDataIfWithinRange")
  /\ event[1].point # Null
  /\ ~PointIsReadable(event[1].point)
  /\ RLe(DistanceTo(event[1].point[1], event[1].tracer.position), SENSING_RADIUS)
  /\ event[1].tracer.dataPoint # Null
  /\ tracer.dataPoint = event[1].tracer.dataPoint
  /\ tracer.dataPoint # event[1].point

----------------------------------------------------------------------------
(* The flight of a projectile without air resistance, stepped by a loop with *)
(* a fixed time step until it lands                                          *)

\* the launch configurations: every angle and speed, from the ground and
\* from a height of 0.5 m, without air resistance
FallModels ==
  {m \in Models(HeightSet) :
     ~m.airResistanceOn /\ m.altitude = Zero /\ m.projectileMass = R(5, 1)}

InitFall ==
  /\ model \in FallModels
  /\ fired = LaunchOf(model)
  /\ projectile = NewProjectile(model)
  /\ scored = <<>>
  /\ call = <<>>
  /\ dragUsed = FALSE
  /\ vectorVisibilityProperties = NewVectorsVectorVisibilityProperties
  /\ NoTrajectories

\* the stepping loop calls projectile.step( dt ), with the dt of its first
\* call
StepFixed(dt) ==
  /\ call # <<>> => call[1].dt = dt
  /\ \/ projectile.reachedGround
     \/ /\ Len(projectile.dataPoints) < MaxFlightPoints
        /\ RLe(projectile.velocity, R(MaxSpeed, 1))
  /\ LET r == ProjectileStep(projectile, dt, model.airResistanceOn, model.altitude)
     IN /\ projectile' = r.p
        /\ scored' = scored \o r.scored
        /\ call' = <<[dt |-> dt, before |-> projectile, timeToGround |-> r.timeToGround]>>
  /\ dragUsed' = (dragUsed \/ (~projectile.reachedGround /\ model.airResistanceOn))
  /\ UNCHANGED <<model, fired, trajectories, tracer, event, vectorVisibilityProperties>>

NextFall == \E dt \in DtSet : StepFixed(dt)

\* the flights of the launch configurations: the projectile of model after n
\* calls of step( dt )
FlightTable ==
  UNION { LET FlightOf[n \in 0..MaxFlightPoints] ==
                IF n = 0 THEN NewProjectile(m)
                ELSE ProjectileStep(FlightOf[n - 1], dt, m.airResistanceOn, m.altitude).p
          IN { [model |-> m, dt |-> dt, n |-> n, projectile |-> FlightOf[n]] :
                 n \in 0..MaxFlightPoints } :
          m \in FallModels, dt \in DtSet }

\* a call of step( dt ) on the projectile in flight, read from the table of
\* its flight
FlightStep(dt) ==
  /\ call # <<>> => call[1].dt = dt
  /\ ~projectile.reachedGround
  /\ Len(projectile.dataPoints) < MaxFlightPoints
  /\ RLe(projectile.velocity, R(MaxSpeed, 1))
  /\ \E flight \in FlightTable :
       /\ flight.model = model
       /\ flight.dt = dt
       /\ flight.n = Len(projectile.dataPoints) + 1
       /\ projectile' = flight.projectile

\* the stepping loop steps the projectile in flight on every frame
SpecFall ==
  InitFall /\ [][NextFall]_vars /\ WF_projectile(\E dt \in DtSet : FlightStep(dt))

\* C25: for every launch from a height >= 0 without air resistance, repeated
\* steps of a fixed dt > 0 eventually set reachedGround: the flight ends
\* after finitely many steps, each of them the step of the loop
C25_FlightTerminates ==
  /\ [][\A dt \in DtSet :
          (StepFixed(dt) /\ ~projectile.reachedGround) => FlightStep(dt)]_vars
  /\ <>projectile.reachedGround

\* a projectile launched upward at 10 m/s landed in its fifth step of 0.5 s
C25_Witness ==
  /\ projectile.reachedGround
  /\ Len(projectile.dataPoints) >= 5
  /\ call # <<>>
  /\ call[1].dt = R(1, 2)
  /\ fired.launchVelocity = R(10, 1)
  /\ scored # <<>>

----------------------------------------------------------------------------
(* TrajectoryIO: the state object read back, and set on a trajectory, in a   *)
(* build with assertions enabled                                            *)

\* _.keys( ioTypeSchema ), in the order of the schema
SchemaKeys ==
  <<"mass", "diameter", "dragCoefficient", "changedInMidAir", "reachedGround", "apexPoint">>

\* an object as the sequence of its keys and values, in the order of
\* _.keys: here the state object of a trajectory
Entries(stateObject) ==
  [n \in 1..Len(SchemaKeys) |-> <<SchemaKeys[n], stateObject[SchemaKeys[n]]>>]

\* the keys of an object
KeysOf(entries) == {entries[n][1] : n \in 1..Len(entries)}

\* DataPointIO.fromStateObject( stateObject ): a new data point
DataPointFromStateObject(stateObject) ==
  [DataPoint(stateObject.time, stateObject.x, stateObject.y) EXCEPT !.apex = stateObject.apex]

\* phetioType.fromStateObject( value )
PhetioFromStateObject(phetioType, value) ==
  CASE phetioType = "NumberIO" -> value
    [] phetioType = "BooleanIO" -> value
    [] phetioType = "NullableIO( DataPointIO )" ->
         IF value = Null THEN Null ELSE <<DataPointFromStateObject(value[1])>>

\* the loop of fromStateObject from the n-th key of the state object: the
\* assertion tests the key against the state object it was taken from, and
\* the type of a key outside the schema is undefined
RECURSIVE FromStateObjectFrom(_, _, _)
FromStateObjectFrom(stateObject, n, fromStateObject) ==
  IF n > Len(stateObject) THEN [failure |-> <<>>, value |-> fromStateObject]
  ELSE IF stateObject[n][1] \notin KeysOf(stateObject)
    THEN [failure |-> <<"unexpected key">>, value |-> fromStateObject]
  ELSE IF stateObject[n][1] \notin DOMAIN ioTypeSchema
    THEN [failure |-> <<"TypeError">>, value |-> fromStateObject]
  ELSE FromStateObjectFrom(stateObject, n + 1,
         Append(fromStateObject,
                <<stateObject[n][1],
                  PhetioFromStateObject(ioTypeSchema[stateObject[n][1]], stateObject[n][2])>>))

\* TrajectoryIO.fromStateObject( stateObject ): the failure, if any, and the
\* object built
FromStateObject(stateObject) ==
  FromStateObjectFrom(stateObject, 1, <<>>)

\* trajectory[ fieldName ] = value
Assign(trajectory, fieldName, value) ==
  [k \in DOMAIN trajectory \cup {fieldName} |->
     IF k = fieldName THEN value ELSE trajectory[k]]

\* the loop of setValue from the n-th key of fromStateObject
RECURSIVE SetValueFrom(_, _, _)
SetValueFrom(trajectory, fromStateObject, n) ==
  IF n > Len(fromStateObject) THEN [failure |-> <<>>, trajectory |-> trajectory]
  ELSE IF fromStateObject[n][1] \notin DOMAIN trajectory
    THEN [failure |-> <<"unexpected key">>, trajectory |-> trajectory]
  ELSE SetValueFrom(Assign(trajectory, fromStateObject[n][1], fromStateObject[n][2]),
                    fromStateObject, n + 1)

\* SetValue emptying the data points of the trajectory
SetValueClearing(trajectory, fromStateObject) ==
  SetValueFrom([trajectory EXCEPT !.dataPoints = <<>>], fromStateObject, 1)

\* TrajectoryIO.setValue( trajectory, fromStateObject ): the failure, if any,
\* and the trajectory after the call
SetValue(trajectory, fromStateObject) ==
  SetValueFrom(trajectory, fromStateObject, 1)

\* the keys a caller adds to an object: a field of a trajectory outside the
\* schema, and a key that is no field of a trajectory
ForeignKeys == {"dataPoints", "score"}

\* an object with one more key, in front or at the end
WithKey(entries, key, inFront) ==
  IF inFront THEN <<<<key, Null>>>> \o entries ELSE Append(entries, <<key, Null>>)

\* the state of the i-th trajectory is exported, read back and set on it
RoundTrip(i) ==
  /\ i \in 1..Len(trajectories)
  /\ LET read == FromStateObject(Entries(ToStateObject(trajectories[i])))
         set == SetValue(trajectories[i], read.value)
     IN /\ trajectories' = [trajectories EXCEPT ![i] = set.trajectory]
        /\ event' = <<[name |-> "roundTrip",
                       trajectory |-> i,
                       before |-> trajectories[i],
                       failure |-> read.failure \o set.failure]>>
  /\ UNCHANGED <<model, fired, projectile, scored, call, dragUsed, tracer, vectorVisibilityProperties>>

\* fromStateObject is called with the state object of the i-th trajectory
\* and one more key
FromStateObjectCall(i, key, inFront) ==
  /\ i \in 1..Len(trajectories)
  /\ event' = <<[name |-> "fromStateObject",
                 key |-> key,
                 result |-> FromStateObject(
                              WithKey(Entries(ToStateObject(trajectories[i])), key, inFront))]>>
  /\ UNCHANGED <<model, fired, projectile, scored, call, dragUsed, trajectories, tracer, vectorVisibilityProperties>>

\* setValue is called on the i-th trajectory with the object read from its
\* state object and one more key, which is no field of the trajectory
SetValueCall(i, key, inFront) ==
  /\ i \in 1..Len(trajectories)
  /\ key \notin DOMAIN trajectories[i]
  /\ LET read == FromStateObject(Entries(ToStateObject(trajectories[i])))
         set == SetValue(trajectories[i], WithKey(read.value, key, inFront))
     IN /\ trajectories' = [trajectories EXCEPT ![i] = set.trajectory]
        /\ event' = <<[name |-> "setValue",
                       trajectory |-> i,
                       key |-> key,
                             before |-> trajectories[i],
                       failure |-> set.failure]>>
  /\ UNCHANGED <<model, fired, projectile, scored, call, dragUsed, tracer, vectorVisibilityProperties>>

NextImport ==
  \/ Fire
  \/ \E dt \in TracerDtSet : StepModelElements(dt)
  \/ \E i \in 1..MaxTrajectories : RoundTrip(i)
  \/ \E i \in 1..MaxTrajectories, key \in ForeignKeys, inFront \in BOOLEAN :
       FromStateObjectCall(i, key, inFront)
  \/ \E i \in 1..MaxTrajectories, key \in ForeignKeys, inFront \in BOOLEAN :
       SetValueCall(i, key, inFront)

SpecImport == InitTracer /\ [][NextImport]_vars

C29_UnexpectedKeyAsserted ==
  /\ (/\ EventIs("fromStateObject")
      /\ event[1].key \notin DOMAIN ioTypeSchema) =>
       /\ event[1].result.failure = <<"unexpected key">>
       /\ event[1].key \notin KeysOf(event[1].result.value)
  /\ (/\ EventIs("setValue")
      /\ event[1].key \notin DOMAIN event[1].before) =>
       /\ event[1].failure = <<"unexpected key">>
       /\ event[1].key \notin DOMAIN trajectories[event[1].trajectory]

----------------------------------------------------------------------------
(* The vector controls of the Vectors screen                               *)

\* the values a control takes
ControlValues(control) ==
  IF control = "vectorsDisplay" THEN VectorsDisplayEnumeration ELSE BOOLEAN

\* a check box or the radio button group sets its control
SetVectorControl(control, value) ==
  /\ vectorVisibilityProperties' = SetControl(vectorVisibilityProperties, control, value)
  /\ event' = <<[name |-> "set", control |-> control, value |-> value, before |-> vectorVisibilityProperties]>>
  /\ UNCHANGED <<model, fired, projectile, scored, call, dragUsed, trajectories, tracer>>

\* reset all: vectorVisibilityProperties.reset()
ResetVectors ==
  /\ vectorVisibilityProperties' = VectorsVectorVisibilityPropertiesReset(vectorVisibilityProperties)
  /\ event' = <<[name |-> "reset", before |-> vectorVisibilityProperties]>>
  /\ UNCHANGED <<model, fired, projectile, scored, call, dragUsed, trajectories, tracer>>

NextVectors ==
  \/ \E control \in DOMAIN ControlDefaults : \E value \in ControlValues(control) : SetVectorControl(control, value)
  \/ ResetVectors

SpecVectors == InitMidAir /\ [][NextVectors]_vars

\* C30: after any sequence of changes to velocityVectorsOn,
\* accelerationVectorsOn, forceVectorsOn and vectorsDisplay, and after reset,
\* each total vector property is true exactly when its kind is on and the
\* display is TOTAL, each components property exactly when its kind is on and
\* the display is COMPONENTS, so the two of one kind are never both true;
\* reset leaves the four controls at their initial values
C30_VisibilitiesFollowControls ==
  LET p == vectorVisibilityProperties
  IN /\ p.totalVelocityVectorOn = (p.velocityVectorsOn /\ p.vectorsDisplay = "TOTAL")
     /\ p.componentsVelocityVectorsOn = (p.velocityVectorsOn /\ p.vectorsDisplay = "COMPONENTS")
     /\ p.totalAccelerationVectorOn = (p.accelerationVectorsOn /\ p.vectorsDisplay = "TOTAL")
     /\ p.componentsAccelerationVectorsOn = (p.accelerationVectorsOn /\ p.vectorsDisplay = "COMPONENTS")
     /\ p.totalForceVectorOn = (p.forceVectorsOn /\ p.vectorsDisplay = "TOTAL")
     /\ p.componentsForceVectorsOn = (p.forceVectorsOn /\ p.vectorsDisplay = "COMPONENTS")
     /\ ~(p.totalVelocityVectorOn /\ p.componentsVelocityVectorsOn)
     /\ ~(p.totalAccelerationVectorOn /\ p.componentsAccelerationVectorsOn)
     /\ ~(p.totalForceVectorOn /\ p.componentsForceVectorsOn)
     /\ (event # <<>> /\ event[1].name = "reset") =>
          /\ ~p.velocityVectorsOn
          /\ ~p.accelerationVectorsOn
          /\ ~p.forceVectorsOn
          /\ p.vectorsDisplay = "TOTAL"

\* the display was switched to COMPONENTS while the force and the velocity
\* vectors were shown as totals and the acceleration vectors were off
C30_Witness ==
  /\ event # <<>>
  /\ event[1].name = "set"
  /\ event[1].control = "vectorsDisplay"
  /\ event[1].before.totalForceVectorOn
  /\ event[1].before.totalVelocityVectorOn
  /\ ~event[1].before.accelerationVectorsOn
  /\ vectorVisibilityProperties.componentsForceVectorsOn
  /\ vectorVisibilityProperties.componentsVelocityVectorsOn
  /\ ~vectorVisibilityProperties.totalForceVectorOn

====
